---- MODULE Spec2Model ----
(***************************************************************************)
(* A model of the grouper package (src/src/grouper): the multi-topic       *)
(* Combiner of combiner.py, its earlier variant in combine.py and the      *)
(* Aligner of aligner.py, the single-stream                                *)
(* groupers Window, Block, BlockArrLike, Counter, History and Neighborhood *)
(* of grouper.py, and the BlockBuffer of buffer.py.                        *)
(*                                                                         *)
(* Every object is a synchronous state machine: one action per method      *)
(* call.  A call that raises leaves the exception's name in the object's   *)
(* *_ret variable; the fields keep whatever the method had assigned        *)
(* before the raise.  The *_log and *_out variables are histories (the     *)
(* puts made, the groups returned) that the properties are stated over.    *)
(*                                                                         *)
(* Times are real-valued in the program (the code divides them and takes   *)
(* int() of the quotient).  The model draws them from the integer grid     *)
(* 0..MaxTime and keeps every quotient exact: an overlap proportion is a   *)
(* fraction [num, den], compared by cross-multiplication.                  *)
(*                                                                         *)
(* Specifications: Spec (the Combiner under arbitrary chronological puts   *)
(* and pulls), SpecFair (Spec with a consumer that keeps pulling),         *)
(* SpecScenario (the Combiner in the two-topic scenario), SpecOffset (a    *)
(* Combiner that does not start at 0), SpecForward (topics that start far  *)
(* apart), SpecCombiners and SpecAnyOrder (either Combiner class, under    *)
(* chronological puts and under puts in any order), and one for each       *)
(* other class: SpecWindow, SpecBlock, SpecBlockArrLike, SpecCounter,      *)
(* SpecHistory, SpecNeighborhood, SpecAligner, SpecBuffer.                 *)
(***************************************************************************)
EXTENDS Integers, Sequences, FiniteSets

\* ------------------------------------------------------------------ bounds
MaxTime == 3          \* put times are drawn from 0..MaxTime
MaxPuts == 3          \* puts per Combiner run
MaxSpan == 2          \* longest datum interval (end_time - start_time)
ScenarioPuts == 5     \* puts per run of the two-topic scenario

Topics == {"x", "y"}
Durations == {2, 3}
StartTimes == {0, 1}
BlockSizes == {1, 2}
Times == 0..MaxTime

\* None, the placeholder of an empty slot; data are numbered from 1
None == 0

VARIABLES
    c_start_time,       \* Combiner(start_time, ...), the constructor argument
    c_window_duration,  \* Combiner._window_duration
    c_next_start_time,  \* Combiner._next_start_time
    c_initialized,      \* Combiner._initialized
    c_windows,          \* Combiner._windows
    c_ret,              \* outcome of the last Combiner call
    c_log,              \* history: the puts made so far, in call order
    c_out               \* history: the bundles returned by next(), in order

VARIABLES
    w_arg_start_time,   \* Window(start_time, ...), the constructor argument
    w_start_time,       \* Window._start_time
    w_window_duration,  \* Window._window_duration
    w_windows,          \* Window._windows
    w_current,          \* Window._current: <<>> is None, <<window>> otherwise
    w_ret,              \* outcome of the last Window call
    w_log,              \* history: the puts made so far, in call order
    w_out               \* history: the windows returned by next(), in order

VARIABLES
    b_arg_block_size,   \* Block(block_size), the constructor argument
    b_attrs,            \* the attributes Block.__init__ has assigned
    b_block_size,       \* Block._block_size
    b_output_buffer,    \* Block._output_buffer
    b_data,             \* Block._data
    b_start_time,       \* Block._start_time, <<>> is None
    b_end_time,         \* Block._end_time, <<>> is None
    b_ret,              \* outcome of the last Block call
    b_log,              \* history: the puts made so far, in call order
    b_out               \* history: the blocks returned by next(), in order

VARIABLES
    n_length,           \* Neighborhood._length
    n_buffer,           \* Neighborhood._buffer
    n_output_buffer,    \* Neighborhood._output_buffer
    n_ret,              \* outcome of the last Neighborhood call
    n_log,              \* history: the puts made so far, in call order
    n_out               \* history: the verdicts returned by next(), in order

VARIABLES
    h_length,           \* History._length
    h_data,             \* History._data
    h_times,            \* History._times
    h_ret,              \* outcome of the last History call
    h_log,              \* history: the puts made so far, in call order
    h_out               \* history: the groups returned by next(), in order

VARIABLES
    k_counter,          \* Counter._counter
    k_buffer,           \* Counter._buffer
    k_ret,              \* outcome of the last Counter call
    k_log,              \* history: the puts made so far, in call order
    k_out               \* history: the entries returned by next(), in order

VARIABLES
    a_windows,          \* Aligner._windows
    a_ret,              \* outcome of the last Aligner call
    a_log,              \* history: the puts made so far, in call order
    a_out               \* history: the bundles returned by next(), in order

VARIABLES
    q_numpy,            \* TRUE for a BlockBufferNP, FALSE for a BlockBuffer
    q_block_size,       \* BlockBuffer._block_size
    q_buffer,           \* BlockBuffer._buffer
    q_ret,              \* outcome of the last BlockBuffer call
    q_value,            \* the value the last BlockBuffer call returned
    q_log,              \* history: the elements added so far, in order
    q_taken             \* history: the number of elements next() removed

VARIABLES
    s_arg_block_size,   \* BlockArrLike(block_size, ...), the argument
    s_attrs,            \* the attributes BlockArrLike.__init__ has assigned
    s_block_size,       \* BlockArrLike._block_size
    s_buffer,           \* BlockArrLike._buffer
    s_times,            \* BlockArrLike._times
    s_output_buffer,    \* BlockArrLike._output_buffer
    s_ret,              \* outcome of the last BlockArrLike call
    s_log,              \* history: the puts made so far, in call order
    s_out               \* history: the blocks returned by next(), in order

VARIABLES
    m_last_time,        \* combine.py Combiner._last_time
    m_window_duration,  \* combine.py Combiner._window_duration
    m_windows,          \* combine.py Combiner._windows
    m_ret,              \* outcome of the last call of that Combiner
    m_log,              \* history: the puts made so far, in call order
    m_out               \* history: the bundles returned by next(), in order

c_vars == <<c_start_time, c_window_duration, c_next_start_time, c_initialized,
            c_windows, c_ret, c_log, c_out>>

w_vars == <<w_arg_start_time, w_start_time, w_window_duration, w_windows,
            w_current, w_ret, w_log, w_out>>

b_vars == <<b_arg_block_size, b_attrs, b_block_size, b_output_buffer, b_data,
            b_start_time, b_end_time, b_ret, b_log, b_out>>

n_vars == <<n_length, n_buffer, n_output_buffer, n_ret, n_log, n_out>>

h_vars == <<h_length, h_data, h_times, h_ret, h_log, h_out>>

k_vars == <<k_counter, k_buffer, k_ret, k_log, k_out>>

a_vars == <<a_windows, a_ret, a_log, a_out>>

q_vars == <<q_numpy, q_block_size, q_buffer, q_ret, q_value, q_log, q_taken>>

s_vars == <<s_arg_block_size, s_attrs, s_block_size, s_buffer, s_times,
            s_output_buffer, s_ret, s_log, s_out>>

\* the Combiner, Window and Block objects; the other objects
core_vars == <<c_vars, w_vars, b_vars>>

m_vars == <<m_last_time, m_window_duration, m_windows, m_ret, m_log, m_out>>

more_vars == <<n_vars, h_vars, k_vars, a_vars, q_vars, s_vars, m_vars>>

vars == <<core_vars, more_vars>>

\* ------------------------------------------------------------ fractions
Frac(n, d) == [num |-> n, den |-> d]
Zero == Frac(0, 1)
FracGT(a, b) == a.num * b.den > b.num * a.den
Max(a, b) == IF a >= b THEN a ELSE b
Min(a, b) == IF a <= b THEN a ELSE b

\* ------------------------------------------------------------- Combiner
\* Combiner._add_window: a blank window at the running start time
BlankWindow(start, duration) ==
    [ data       |-> [t \in Topics |-> None],
      start_time |-> start,
      end_time   |-> start + duration,
      statuses   |-> [t \in Topics |-> FALSE],
      overlaps   |-> [t \in Topics |-> Zero] ]

\* st is [windows, next]: the window list and _next_start_time
AddWindow(st, duration) ==
    [ windows |-> Append(st.windows, BlankWindow(st.next, duration)),
      next    |-> st.next + duration ]

IsWindowReadyAny(window) == \E t \in Topics : window.statuses[t]

IsWindowReady(window) == \A t \in Topics : window.statuses[t]

OverlapNoClip(start, end, w_start, w_end) ==
    IF start > w_end \/ end < w_start
    THEN Zero
    ELSE Frac(end - start, w_end - w_start)

Overlap(start, end, w_start, w_end) ==
    IF start > w_end \/ end < w_start
    THEN Zero
    ELSE Frac(Min(end, w_end) - Max(start, w_start), w_end - w_start)

\* every window deleted
DropAll(windows, start_time) == <<>>

\* put, first contact: while self._windows and start_time > windows[0].end_time
RECURSIVE DropEnded(_, _)
DropEnded(windows, start_time) ==
    IF windows # <<>> /\ start_time > windows[1].end_time
    THEN DropEnded(Tail(windows), start_time)
    ELSE windows

\* the next start time moved to the datum's start
AccelerateTo(next, start_time, duration) ==
    IF start_time > next THEN start_time ELSE next

\* the next start time moved one duration further
AccelerateOver(next, start_time, duration) ==
    IF start_time > next
    THEN next + duration * (((start_time - next) \div duration) + 1)
    ELSE next

\* put, first contact: accelerate the next start time
Accelerate(next, start_time, duration) ==
    IF start_time > next
    THEN next + duration * ((start_time - next) \div duration)
    ELSE next

\* put: while self._windows[-1]['start_time'] <= end_time: self._add_window()
RECURSIVE EnsureWindows(_, _, _)
EnsureWindows(st, end_time, duration) ==
    IF st.windows[Len(st.windows)].start_time <= end_time
    THEN EnsureWindows(AddWindow(st, duration), end_time, duration)
    ELSE st

BetterGE(overlap, best) == ~FracGT(best, overlap)

Better(overlap, best) == FracGT(overlap, best)

MarksReadyStrict(window, start_time) == window.end_time < start_time

MarksReady(window, start_time) == window.end_time <= start_time

\* put: for window in self._windows, from index i on
RECURSIVE Scan(_, _, _, _, _, _)
Scan(windows, i, topic, datum, start_time, end_time) ==
    IF i > Len(windows) THEN windows
    ELSE LET window == windows[i] IN
         IF MarksReady(window, start_time)
         THEN Scan([windows EXCEPT ![i].statuses[topic] = TRUE],
                   i + 1, topic, datum, start_time, end_time)
         ELSE IF window.start_time > end_time
         THEN windows
         ELSE LET overlap == Overlap(start_time, end_time,
                                     window.start_time, window.end_time)
              IN  IF Better(overlap, window.overlaps[topic])
                  THEN Scan([windows EXCEPT ![i].data[topic] = datum,
                                            ![i].overlaps[topic] = overlap],
                            i + 1, topic, datum, start_time, end_time)
                  ELSE Scan(windows, i + 1, topic, datum, start_time, end_time)

\* The state put leaves behind: [windows, next]
PutResult(topic, datum, start_time, end_time) ==
    LET first == ~c_initialized[topic]
        st1 == IF first
               THEN [ windows |-> DropEnded(c_windows, start_time),
                      next    |-> Accelerate(c_next_start_time, start_time,
                                             c_window_duration) ]
               ELSE [ windows |-> c_windows, next |-> c_next_start_time ]
        st2 == IF st1.windows = <<>>
               THEN AddWindow(st1, c_window_duration) ELSE st1
    IN  IF end_time < st2.windows[1].start_time
        THEN st2
        ELSE LET st3 == EnsureWindows(st2, end_time, c_window_duration)
             IN  [ windows |-> Scan(st3.windows, 1, topic, datum,
                                    start_time, end_time),
                   next    |-> st3.next ]

\* data in any order
ChronologicalAny(log, topic, start_time) == TRUE

\* The caller's side of put: data arrive in chronological order per topic
Chronological(log, topic, start_time) ==
    \A k \in 1..Len(log) :
        log[k].topic = topic => log[k].start_time <= start_time

\* Combiner.put; the datum is numbered by its position in the put history
CombinerPut(topic, start_time, end_time) ==
    /\ LET datum == Len(c_log) + 1
           st == PutResult(topic, datum, start_time, end_time)
       IN  /\ c_windows' = st.windows
           /\ c_next_start_time' = st.next
           /\ c_log' = Append(c_log, [ topic |-> topic, datum |-> datum,
                                       start_time |-> start_time,
                                       end_time |-> end_time ])
    /\ c_initialized' = [c_initialized EXCEPT ![topic] = TRUE]
    /\ c_ret' = "ok"
    /\ UNCHANGED <<c_start_time, c_window_duration, c_out>>
    /\ UNCHANGED <<w_vars, b_vars>>
    /\ UNCHANGED more_vars

PopLast(windows) ==
    [ window |-> windows[Len(windows)],
      rest   |-> SubSeq(windows, 1, Len(windows) - 1) ]

\* self._windows.pop(0)
PopWindow(windows) == [ window |-> windows[1], rest |-> Tail(windows) ]

Bundle(window) ==
    [ data |-> window.data, start_time |-> window.start_time,
      end_time |-> window.end_time ]

CombinerNext ==
    /\ IF c_windows = <<>>
       THEN \* self._windows[0] on an empty list
            /\ c_ret' = "IndexError"
            /\ UNCHANGED <<c_windows, c_out>>
       ELSE IF IsWindowReady(c_windows[1])
       THEN LET p == PopWindow(c_windows)
            IN  /\ c_windows' = p.rest
                /\ c_out' = Append(c_out, Bundle(p.window))
                /\ c_ret' = "bundle"
       ELSE /\ c_ret' = "StopIteration"
            /\ UNCHANGED <<c_windows, c_out>>
    /\ UNCHANGED <<c_start_time, c_window_duration, c_next_start_time,
                   c_initialized, c_log>>
    /\ UNCHANGED <<w_vars, b_vars>>
    /\ UNCHANGED more_vars

\* Combiner.__init__(start_time, window_duration, topics)
CombinerNew(start_time, window_duration) ==
    /\ c_start_time = start_time
    /\ c_window_duration = window_duration
    /\ c_next_start_time = c_start_time
    /\ c_initialized = [t \in Topics |-> FALSE]
    /\ c_windows = <<>>
    /\ c_ret = "none"
    /\ c_log = <<>>
    /\ c_out = <<>>

\* --------------------------------------------------------------- Window
\* Window.__init__(start_time, window_duration)
WindowNew(start_time, window_duration) ==
    /\ w_arg_start_time = start_time
    /\ w_start_time = start_time
    /\ w_window_duration = window_duration
    /\ w_windows = <<>>
    /\ w_current = <<>>
    /\ w_ret = "none"
    /\ w_log = <<>>
    /\ w_out = <<>>

\* st is [start, current, windows, raised]: _start_time, _current, _windows
\* and the exception raised so far ("none" when none)
\* Window._initialize_current(self): its first statement reads start_time,
\* which is neither a parameter nor a local nor a global of the module, so
\* the call raises NameError before it assigns anything.
InitializeCurrent(st) == [st EXCEPT !.raised = "NameError"]

\* Window._send_current
SendCurrent(st, duration) ==
    LET cur == st.current[1]
        new_window == [ start_time |-> cur.end_time,
                        end_time   |-> cur.end_time + duration,
                        data       |-> <<>> ]
    IN  [st EXCEPT !.windows = Append(@, cur), !.current = <<new_window>>]

\* put: while start_time > self._current['end_time']: self._send_current()
RECURSIVE ShipEarlier(_, _, _)
ShipEarlier(st, start_time, duration) ==
    IF start_time > st.current[1].end_time
    THEN ShipEarlier(SendCurrent(st, duration), start_time, duration)
    ELSE st

\* put: while end_time > self._current['end_time']: append, _send_current()
RECURSIVE FillAndShip(_, _, _, _)
FillAndShip(st, datum, end_time, duration) ==
    IF end_time > st.current[1].end_time
    THEN FillAndShip(
             SendCurrent([st EXCEPT !.current[1].data = Append(@, datum)],
                         duration),
             datum, end_time, duration)
    ELSE st

\* The state Window.put leaves behind
WindowPutResult(datum, start_time, end_time) ==
    LET st0 == [ start |-> w_start_time, current |-> w_current,
                 windows |-> w_windows, raised |-> "none" ]
    IN  IF end_time < st0.start THEN st0
        ELSE LET st1 == IF st0.current = <<>>
                        THEN InitializeCurrent(st0) ELSE st0
             IN  IF st1.raised # "none" THEN st1
                 ELSE LET st2 == ShipEarlier(st1, start_time, w_window_duration)
                          st3 == FillAndShip(st2, datum, end_time,
                                             w_window_duration)
                      IN  [st3 EXCEPT !.current[1].data = Append(@, datum)]

\* Window.put; the datum is numbered by its position in the put history
WindowPut(start_time, end_time) ==
    /\ LET datum == Len(w_log) + 1
           st == WindowPutResult(datum, start_time, end_time)
       IN  /\ w_start_time' = st.start
           /\ w_current' = st.current
           /\ w_windows' = st.windows
           /\ w_ret' = IF st.raised = "none" THEN "ok" ELSE st.raised
           /\ w_log' = Append(w_log, [ datum |-> datum,
                                       start_time |-> start_time,
                                       end_time |-> end_time ])
    /\ UNCHANGED <<w_arg_start_time, w_window_duration, w_out>>
    /\ UNCHANGED <<c_vars, b_vars>>
    /\ UNCHANGED more_vars

\* Window.next
WindowNext ==
    /\ IF w_windows = <<>>
       THEN /\ w_ret' = "StopIteration"
            /\ UNCHANGED <<w_windows, w_out>>
       ELSE /\ w_windows' = Tail(w_windows)
            /\ w_out' = Append(w_out, w_windows[1])
            /\ w_ret' = "window"
    /\ UNCHANGED <<w_arg_start_time, w_start_time, w_window_duration,
                   w_current, w_log>>
    /\ UNCHANGED <<c_vars, b_vars>>
    /\ UNCHANGED more_vars

\* The caller of Window.put: well-formed intervals, in temporal order
WindowPutAllowed(start_time, end_time) ==
    /\ Len(w_log) < MaxPuts
    /\ start_time <= end_time
    /\ \A k \in 1..Len(w_log) :
           /\ w_log[k].start_time <= start_time
           /\ w_log[k].end_time <= end_time

\* ---------------------------------------------------------------- Block
\* Block.__init__(block_size): its first statement, self._block_size =
\* self._block_size, reads an attribute that does not exist and raises
\* AttributeError; no attribute of the instance is ever assigned.
BlockNew(block_size) ==
    /\ b_arg_block_size = block_size
    /\ b_attrs = {}
    /\ b_block_size = 0
    /\ b_output_buffer = <<>>
    /\ b_data = <<>>
    /\ b_start_time = <<>>
    /\ b_end_time = <<>>
    /\ b_ret = "AttributeError"
    /\ b_log = <<>>
    /\ b_out = <<>>

\* Block.put; the datum is numbered by its position in the put history
BlockPut(start_time, end_time) ==
    /\ LET datum == Len(b_log) + 1
           data == Append(b_data, datum)
           first == IF b_start_time = <<>> THEN <<start_time>> ELSE b_start_time
       IN  /\ b_log' = Append(b_log, [ datum |-> datum,
                                       start_time |-> start_time,
                                       end_time |-> end_time ])
           /\ IF ~({"_data", "_start_time", "_end_time", "_block_size",
                    "_output_buffer"} \subseteq b_attrs)
              THEN \* self._data of an instance without attributes
                   /\ b_ret' = "AttributeError"
                   /\ UNCHANGED <<b_data, b_start_time, b_end_time,
                                  b_output_buffer>>
              ELSE IF Len(data) = b_block_size
              THEN \* the block is queued; self._reset_data() then raises
                   \* TypeError (_reset_data is defined without self)
                   /\ b_output_buffer' =
                          Append(b_output_buffer,
                                 [ data |-> data, start_time |-> first[1],
                                   end_time |-> end_time ])
                   /\ b_data' = data
                   /\ b_start_time' = first
                   /\ b_end_time' = <<end_time>>
                   /\ b_ret' = "TypeError"
              ELSE /\ b_data' = data
                   /\ b_start_time' = first
                   /\ b_end_time' = <<end_time>>
                   /\ b_ret' = "ok"
                   /\ UNCHANGED b_output_buffer
    /\ UNCHANGED <<b_arg_block_size, b_attrs, b_block_size, b_out>>
    /\ UNCHANGED <<c_vars, w_vars>>
    /\ UNCHANGED more_vars

\* Block.next
BlockNext ==
    /\ IF "_output_buffer" \notin b_attrs
       THEN /\ b_ret' = "AttributeError"
            /\ UNCHANGED <<b_output_buffer, b_out>>
       ELSE IF b_output_buffer = <<>>
       THEN /\ b_ret' = "StopIteration"
            /\ UNCHANGED <<b_output_buffer, b_out>>
       ELSE /\ b_output_buffer' = Tail(b_output_buffer)
            /\ b_out' = Append(b_out, b_output_buffer[1])
            /\ b_ret' = "block"
    /\ UNCHANGED <<b_arg_block_size, b_attrs, b_block_size, b_data,
                   b_start_time, b_end_time, b_log>>
    /\ UNCHANGED <<c_vars, w_vars>>
    /\ UNCHANGED more_vars

\* The caller of Block.put: well-formed intervals, in temporal order
BlockPutAllowed(start_time, end_time) ==
    /\ Len(b_log) < MaxPuts
    /\ start_time <= end_time
    /\ \A k \in 1..Len(b_log) : b_log[k].end_time <= start_time

\* --------------------------------------------------------- Neighborhood
\* A datum of a Neighborhood is modelled by its validity bit, and
\* is_valid(nbhd) by "every datum of nbhd is valid".

NbhdLengths == {1, 2}

\* Neighborhood.__init__ : the attributes the constructor assigns
NeighborhoodAttrs == {"_is_valid", "_length", "_buffer", "_output_buffer"}

\* the keys of a record of Neighborhood._buffer
NeighborhoodKeys == {"datum", "start_time", "end_time", "handled"}

NeighborhoodNew(length) ==
    /\ n_length = length
    /\ n_buffer = <<>>
    /\ n_output_buffer = <<>>
    /\ n_ret = "None"
    /\ n_log = <<>>
    /\ n_out = <<>>

\* Neighborhood.put : the outcome of the statements after the append.
\* `self.length` is read before anything else; the constructor assigned
\* `_length`, so the read raises.  `x['data']` is the next read.
NeighborhoodCheck(buffer) ==
    IF "length" \notin NeighborhoodAttrs THEN "AttributeError"
    ELSE IF Len(buffer) # n_length THEN "None"
    ELSE IF "data" \notin NeighborhoodKeys THEN "KeyError"
    ELSE "None"

NeighborhoodPut(datum, start_time, end_time) ==
    LET buffer == Append(n_buffer, [datum |-> datum,
                                    start_time |-> start_time,
                                    end_time |-> end_time,
                                    handled |-> FALSE])
    IN  /\ n_buffer' = buffer
        /\ n_ret' = NeighborhoodCheck(buffer)
        /\ n_log' = Append(n_log, [datum |-> datum,
                                   start_time |-> start_time,
                                   end_time |-> end_time])
        /\ UNCHANGED <<n_length, n_output_buffer, n_out>>
        /\ UNCHANGED <<m_vars, core_vars, h_vars, k_vars, a_vars, q_vars, s_vars>>

NeighborhoodNext ==
    /\ IF n_output_buffer = <<>>
       THEN /\ n_ret' = "StopIteration"
            /\ UNCHANGED <<n_output_buffer, n_out>>
       ELSE /\ n_ret' = "None"
            /\ n_out' = Append(n_out, Head(n_output_buffer))
            /\ n_output_buffer' = Tail(n_output_buffer)
    /\ UNCHANGED <<n_length, n_buffer, n_log>>
    /\ UNCHANGED <<m_vars, core_vars, h_vars, k_vars, a_vars, q_vars, s_vars>>

\* -------------------------------------------------------------- History
HistoryLengths == {1, 2}

HistoryNew(length) ==
    /\ h_length = length
    /\ h_data = <<>>
    /\ h_times = <<>>
    /\ h_ret = "None"
    /\ h_log = <<>>
    /\ h_out = <<>>

HistoryPut(datum, start_time, end_time) ==
    /\ h_data' = Append(h_data, datum)
    /\ h_times' = Append(h_times, <<start_time, end_time>>)
    /\ h_ret' = "None"
    /\ h_log' = Append(h_log, [datum |-> datum, start_time |-> start_time,
                               end_time |-> end_time])
    /\ UNCHANGED <<h_length, h_out>>
    /\ UNCHANGED <<m_vars, core_vars, n_vars, k_vars, a_vars, q_vars, s_vars>>

\* del self._data[0], left out
DelNothing(seq) == seq

\* del self._data[0]
DelFirst(seq) == Tail(seq)

\* self._data[:self._length + 1]
PrefixOneMore(seq, n) == SubSeq(seq, 1, n + 1)

\* self._data[:self._length]
Prefix(seq, n) == SubSeq(seq, 1, n)

HistoryNext ==
    /\ IF Len(h_data) <= h_length
       THEN /\ h_ret' = "StopIteration"
            /\ UNCHANGED <<h_data, h_times, h_out>>
       ELSE /\ h_ret' = "None"
            /\ h_out' = Append(h_out,
                   [data |-> Prefix(h_data, h_length),
                    start_time |-> h_times[h_length + 1][1],
                    end_time |-> h_times[h_length + 1][2]])
            /\ h_data' = DelFirst(h_data)
            /\ h_times' = Tail(h_times)
    /\ UNCHANGED <<h_length, h_log>>
    /\ UNCHANGED <<m_vars, core_vars, n_vars, k_vars, a_vars, q_vars, s_vars>>

\* -------------------------------------------------------------- Counter
\* A datum of a Counter is modelled by its validity bit: is_valid(datum)
\* is the bit.

CounterNew ==
    /\ k_counter = 0
    /\ k_buffer = <<>>
    /\ k_ret = "None"
    /\ k_log = <<>>
    /\ k_out = <<>>

\* the counter never returning to 0
CountAll(counter, valid) == counter + 1

\* Counter.put : the counter after a datum
Count(counter, valid) == IF valid THEN counter + 1 ELSE 0

CounterPut(datum, start_time, end_time) ==
    /\ k_buffer' = Append(k_buffer, <<k_counter, start_time, end_time>>)
    /\ k_counter' = Count(k_counter, datum)
    /\ k_ret' = "None"
    /\ k_log' = Append(k_log, [datum |-> datum, start_time |-> start_time,
                               end_time |-> end_time])
    /\ UNCHANGED k_out
    /\ UNCHANGED <<m_vars, core_vars, n_vars, h_vars, a_vars, q_vars, s_vars>>

CounterNext ==
    /\ IF k_buffer = <<>>
       THEN /\ k_ret' = "StopIteration"
            /\ UNCHANGED <<k_buffer, k_out>>
       ELSE /\ k_ret' = "None"
            /\ k_out' = Append(k_out, Head(k_buffer))
            /\ k_buffer' = Tail(k_buffer)
    /\ UNCHANGED <<k_counter, k_log>>
    /\ UNCHANGED <<m_vars, core_vars, n_vars, h_vars, a_vars, q_vars, s_vars>>

\* -------------------------------------------------------------- Aligner
\* The Aligner is built over Topics; a datum is numbered by its position
\* in the put history.

AlignerNew ==
    /\ a_windows = <<>>
    /\ a_ret = "None"
    /\ a_log = <<>>
    /\ a_out = <<>>

\* Aligner._add_window
AlignerAddWindow(windows, start_time, end_time) ==
    Append(windows, [data |-> [t \in Topics |-> None],
                     start_time |-> start_time,
                     end_time |-> end_time,
                     statuses |-> [t \in Topics |-> FALSE]])

\* Aligner._is_window_ready
AlignerIsWindowReady(window) == \A t \in Topics : window.statuses[t]

\* the indices of the windows that lack `topic`
Unfilled(windows, topic) ==
    {i \in 1..Len(windows) : ~windows[i].statuses[topic]}

\* the last window that lacks `topic`
LastUnfilled(windows, topic) ==
    CHOOSE i \in Unfilled(windows, topic) :
        \A j \in Unfilled(windows, topic) : j <= i

\* Aligner.put : the window the for loop stops at
FirstUnfilled(windows, topic) ==
    CHOOSE i \in Unfilled(windows, topic) :
        \A j \in Unfilled(windows, topic) : i <= j

\* self._windows[i]['statuses'][topic] = True; ...['data'][topic] = datum
Fill(windows, i, topic, datum) ==
    [windows EXCEPT ![i].statuses[topic] = TRUE, ![i].data[topic] = datum]

AlignerPut(topic, start_time, end_time) ==
    LET datum == Len(a_log) + 1
        added == AlignerAddWindow(a_windows, start_time, end_time)
    IN  /\ a_windows' =
               IF Unfilled(a_windows, topic) # {}
               THEN Fill(a_windows, FirstUnfilled(a_windows, topic),
                         topic, datum)
               ELSE Fill(added, Len(added), topic, datum)
        /\ a_ret' = "None"
        /\ a_log' = Append(a_log, [topic |-> topic, datum |-> datum,
                                   start_time |-> start_time,
                                   end_time |-> end_time])
        /\ UNCHANGED a_out
        /\ UNCHANGED <<m_vars, core_vars, n_vars, h_vars, k_vars, q_vars, s_vars>>

AlignerNext ==
    /\ IF a_windows # <<>> /\ AlignerIsWindowReady(a_windows[1])
       THEN /\ a_ret' = "None"
            /\ a_out' = Append(a_out,
                               [data |-> a_windows[1].data,
                                start_time |-> a_windows[1].start_time,
                                end_time |-> a_windows[1].end_time])
            /\ a_windows' = Tail(a_windows)
       ELSE /\ a_ret' = "StopIteration"
            /\ UNCHANGED <<a_windows, a_out>>
    /\ UNCHANGED a_log
    /\ UNCHANGED <<m_vars, core_vars, n_vars, h_vars, k_vars, q_vars, s_vars>>

\* ---------------------------------------------------------- BlockBuffer
\* One instance, a BlockBuffer (q_numpy = FALSE) or a BlockBufferNP
\* (q_numpy = TRUE).  put is given a chunk, a sequence of elements.

Elements == {"a", "b"}

MaxChunk == 2

Chunks == UNION {[1..n -> Elements] : n \in 0..MaxChunk}

BufferSizes == {-1, 0, 1, 2}

\* BlockBuffer.__init__, BlockBufferNP.__init__ : block_size is stored as
\* given
BufferNew(numpy, block_size) ==
    /\ q_numpy = numpy
    /\ q_block_size = block_size
    /\ q_buffer = <<>>
    /\ q_ret = "None"
    /\ q_value = <<>>
    /\ q_log = <<>>
    /\ q_taken = 0

\* a slice bound i of a sequence of n items, as Python clips it
SliceBound(i, n) ==
    IF i < 0 THEN (IF n + i < 0 THEN 0 ELSE n + i)
    ELSE IF i > n THEN n ELSE i

\* buffer[:i]
Upto(buffer, i) == SubSeq(buffer, 1, SliceBound(i, Len(buffer)))

\* buffer[i:]
From(buffer, i) ==
    SubSeq(buffer, SliceBound(i, Len(buffer)) + 1, Len(buffer))

\* BlockBuffer.put appends its argument as one item;
\* BlockBufferNP.put appends the elements of its argument
Added(buffer, chunk) ==
    IF q_numpy THEN buffer \o chunk ELSE Append(buffer, chunk)

BufferPut(chunk) ==
    /\ q_buffer' = Added(q_buffer, chunk)
    /\ q_ret' = "None"
    /\ q_value' = <<>>
    /\ q_log' = IF q_numpy THEN q_log \o chunk ELSE q_log \o <<chunk>>
    /\ UNCHANGED <<q_numpy, q_block_size, q_taken>>
    /\ UNCHANGED <<m_vars, core_vars, n_vars, h_vars, k_vars, a_vars, s_vars>>

BufferNext ==
    /\ IF q_block_size > Len(q_buffer)
       THEN /\ q_ret' = "StopIteration"
            /\ q_value' = <<>>
            /\ UNCHANGED <<q_buffer, q_taken>>
       ELSE /\ q_ret' = "block"
            /\ q_value' = Upto(q_buffer, q_block_size)
            /\ q_buffer' = From(q_buffer, q_block_size)
            /\ q_taken' = q_taken + Len(Upto(q_buffer, q_block_size))
    /\ UNCHANGED <<q_numpy, q_block_size, q_log>>
    /\ UNCHANGED <<m_vars, core_vars, n_vars, h_vars, k_vars, a_vars, s_vars>>

\* int(a / b) of two Python 2 integers, b # 0: the floor of the quotient
FloorDiv(a, b) ==
    IF b > 0 THEN a \div b ELSE 0 - ((a + (0 - b) - 1) \div (0 - b))

\* BlockBuffer.num_blocks; the number is returned as a one-item sequence
BufferNumBlocks ==
    /\ IF q_block_size = 0
       THEN /\ q_ret' = "ZeroDivisionError"
            /\ q_value' = <<>>
       ELSE /\ q_ret' = "num_blocks"
            /\ q_value' = <<FloorDiv(Len(q_buffer), q_block_size)>>
    /\ UNCHANGED <<q_numpy, q_block_size, q_buffer, q_log, q_taken>>
    /\ UNCHANGED <<m_vars, core_vars, n_vars, h_vars, k_vars, a_vars, s_vars>>

\* the complete blocks of the buffer only
WholeBlocks(buffer) ==
    IF q_block_size > 0
    THEN SubSeq(buffer, 1, q_block_size * (Len(buffer) \div q_block_size))
    ELSE buffer

\* BlockBuffer.get_all : the value returned
GetAll(buffer) == buffer

BufferGetAll ==
    /\ q_ret' = "get_all"
    /\ q_value' = GetAll(q_buffer)
    /\ UNCHANGED <<q_numpy, q_block_size, q_buffer, q_log, q_taken>>
    /\ UNCHANGED <<m_vars, core_vars, n_vars, h_vars, k_vars, a_vars, s_vars>>

\* BlockBuffer.reset, BlockBufferNP.reset; the histories restart with the
\* buffer
BufferReset ==
    /\ q_buffer' = <<>>
    /\ q_ret' = "None"
    /\ q_value' = <<>>
    /\ q_log' = <<>>
    /\ q_taken' = 0
    /\ UNCHANGED <<q_numpy, q_block_size>>
    /\ UNCHANGED <<m_vars, core_vars, n_vars, h_vars, k_vars, a_vars, s_vars>>

\* --------------------------------------------------------- BlockArrLike
\* BlockArrLike.__init__(block_size, buffer, concatenate): its first
\* statement, self._block_size = self._block_size, reads an attribute that
\* does not exist and raises AttributeError; no attribute of the instance
\* is ever assigned.  The buffer is a list and concatenate is operator.add.
BlockArrLikeNew(block_size) ==
    /\ s_arg_block_size = block_size
    /\ s_attrs = {}
    /\ s_block_size = 0
    /\ s_buffer = <<>>
    /\ s_times = <<>>
    /\ s_output_buffer = <<>>
    /\ s_ret = "AttributeError"
    /\ s_log = <<>>
    /\ s_out = <<>>

\* BlockArrLike._get_end_time : the while loop; the intervals left and the
\* part of the block that lies in the first of them
RECURSIVE SkipTimes(_, _)
SkipTimes(times, block_length) ==
    IF block_length > times[1].length
    THEN SkipTimes(Tail(times), block_length - times[1].length)
    ELSE <<times, block_length>>

\* BlockArrLike._get_end_time : the first interval after the block is cut
\* from it.  start_time is a fraction, end_time the integer put.
CutFirst(first, block_length) ==
    [length |-> first.length - block_length,
     start_time |->
         Frac(first.start_time.num * first.length
                  + (first.end_time * first.start_time.den
                         - first.start_time.num) * block_length,
              first.start_time.den * first.length),
     end_time |-> first.end_time]

\* BlockArrLike._get_end_time : self._times afterwards; its first
\* start_time is the value returned
GetEndTime(times, block_length) ==
    LET skipped == SkipTimes(times, block_length)
    IN  <<CutFirst(skipped[1][1], skipped[2])>> \o Tail(skipped[1])

\* BlockArrLike.put : the while loop over the buffer
RECURSIVE Blocks(_, _, _)
Blocks(buffer, times, output) ==
    IF Len(buffer) >= s_block_size
    THEN LET block == Upto(buffer, s_block_size)
             after == GetEndTime(times, Len(block))
         IN  Blocks(From(buffer, s_block_size), after,
                    Append(output, [data |-> block,
                                    start_time |-> times[1].start_time,
                                    end_time |-> after[1].start_time]))
    ELSE <<buffer, times, output>>

\* BlockArrLike.put; the elements are numbered by their position in the
\* put history
BlockArrLikePut(length, start_time, end_time) ==
    /\ LET done == IF s_log = <<>> THEN 0 ELSE s_log[Len(s_log)].last
           data == [i \in 1..length |-> done + i]
           result == Blocks(s_buffer \o data,
                            Append(s_times,
                                   [length |-> length,
                                    start_time |-> Frac(start_time, 1),
                                    end_time |-> end_time]),
                            s_output_buffer)
       IN  /\ s_log' = Append(s_log, [length |-> length,
                                      last |-> done + length,
                                      start_time |-> start_time,
                                      end_time |-> end_time])
           /\ IF ~({"_buffer", "_concatenate", "_times", "_block_size",
                    "_output_buffer"} \subseteq s_attrs)
              THEN \* self._concatenate of an instance without attributes
                   /\ s_ret' = "AttributeError"
                   /\ UNCHANGED <<s_buffer, s_times, s_output_buffer>>
              ELSE /\ s_buffer' = result[1]
                   /\ s_times' = result[2]
                   /\ s_output_buffer' = result[3]
                   /\ s_ret' = "None"
    /\ UNCHANGED <<s_arg_block_size, s_attrs, s_block_size, s_out>>
    /\ UNCHANGED <<m_vars, core_vars, n_vars, h_vars, k_vars, a_vars, q_vars>>

\* BlockArrLike.next
BlockArrLikeNext ==
    /\ IF "_output_buffer" \notin s_attrs
       THEN /\ s_ret' = "AttributeError"
            /\ UNCHANGED <<s_output_buffer, s_out>>
       ELSE IF s_output_buffer = <<>>
       THEN /\ s_ret' = "StopIteration"
            /\ UNCHANGED <<s_output_buffer, s_out>>
       ELSE /\ s_output_buffer' = Tail(s_output_buffer)
            /\ s_out' = Append(s_out, s_output_buffer[1])
            /\ s_ret' = "None"
    /\ UNCHANGED <<s_arg_block_size, s_attrs, s_block_size, s_buffer,
                   s_times, s_log>>
    /\ UNCHANGED <<m_vars, core_vars, n_vars, h_vars, k_vars, a_vars, q_vars>>

\* ----------------------------------------------- Combiner of combine.py
\* The Combiner class of combine.py, over Topics; a datum is numbered by
\* its position in the put history.

\* combine.py Combiner._add_window; st is [windows, last]: the window list
\* and _last_time
CombineAddWindow(st, duration) ==
    [ windows |-> Append(st.windows,
                         [ data       |-> [t \in Topics |-> None],
                           start_time |-> st.last,
                           end_time   |-> st.last + duration,
                           statuses   |-> [t \in Topics |-> FALSE],
                           overlaps   |-> [t \in Topics |-> Zero] ]),
      last    |-> st.last + duration ]

\* combine.py Combiner.__init__(start_time, window_duration, topics): the
\* first window is added at once
CombineNew(start_time, window_duration) ==
    /\ m_window_duration = window_duration
    /\ m_windows = CombineAddWindow([windows |-> <<>>, last |-> start_time],
                                    window_duration).windows
    /\ m_last_time = start_time + window_duration
    /\ m_ret = "none"
    /\ m_log = <<>>
    /\ m_out = <<>>

\* combine.py Combiner._is_window_ready
CombineIsWindowReady(windows, index) ==
    \A t \in Topics : windows[index].statuses[t]

\* combine.py Combiner._overlap
CombineOverlap(start, end, w_start, w_end) ==
    IF start > w_end \/ end < w_start
    THEN Zero
    ELSE Frac(Min(end, w_end) - Max(start, w_start), w_end - w_start)

\* put: while not self._windows[-1]['start_time'] > end_time
RECURSIVE CombineEnsureWindows(_, _, _)
CombineEnsureWindows(st, end_time, duration) ==
    IF ~(st.windows[Len(st.windows)].start_time > end_time)
    THEN CombineEnsureWindows(CombineAddWindow(st, duration), end_time,
                              duration)
    ELSE st

\* put: for window in self._windows
RECURSIVE CombineScan(_, _, _, _, _, _)
CombineScan(windows, i, topic, datum, start_time, end_time) ==
    IF i > Len(windows) THEN windows
    ELSE LET window == windows[i] IN
         IF window.end_time <= start_time
         THEN CombineScan([windows EXCEPT ![i].statuses[topic] = TRUE],
                          i + 1, topic, datum, start_time, end_time)
         ELSE IF window.start_time > end_time
         THEN windows
         ELSE LET overlap == CombineOverlap(start_time, end_time,
                                 window.start_time, window.end_time)
              IN  IF FracGT(overlap, window.overlaps[topic])
                  THEN CombineScan(
                           [windows EXCEPT ![i].data[topic] = datum,
                                           ![i].overlaps[topic] = overlap],
                           i + 1, topic, datum, start_time, end_time)
                  ELSE CombineScan(windows, i + 1, topic, datum,
                                   start_time, end_time)

\* combine.py Combiner.put: the window list and _last_time afterwards
CombinePutResult(topic, datum, start_time, end_time) ==
    LET st1 == [ windows |-> m_windows, last |-> m_last_time ]
        st2 == IF st1.windows = <<>>
               THEN CombineAddWindow(st1, m_window_duration) ELSE st1
    IN  IF end_time < st2.windows[1].start_time
        THEN st2
        ELSE LET st3 == CombineEnsureWindows(st2, end_time,
                                             m_window_duration)
             IN  [ windows |-> CombineScan(st3.windows, 1, topic, datum,
                                           start_time, end_time),
                   last    |-> st3.last ]

CombinePut(topic, start_time, end_time) ==
    /\ LET datum == Len(m_log) + 1
           st == CombinePutResult(topic, datum, start_time, end_time)
       IN  /\ m_windows' = st.windows
           /\ m_last_time' = st.last
           /\ m_log' = Append(m_log, [ topic |-> topic, datum |-> datum,
                                       start_time |-> start_time,
                                       end_time |-> end_time ])
    /\ m_ret' = "ok"
    /\ UNCHANGED <<m_window_duration, m_out>>
    /\ UNCHANGED <<core_vars, n_vars, h_vars, k_vars, a_vars, q_vars,
                   s_vars>>

\* combine.py Combiner.next
CombineNext ==
    /\ IF m_windows # <<>> /\ CombineIsWindowReady(m_windows, 1)
       THEN /\ m_windows' = Tail(m_windows)
            /\ m_out' = Append(m_out,
                               [ data |-> m_windows[1].data,
                                 start_time |-> m_windows[1].start_time,
                                 end_time |-> m_windows[1].end_time ])
            /\ m_ret' = "bundle"
       ELSE /\ m_ret' = "StopIteration"
            /\ UNCHANGED <<m_windows, m_out>>
    /\ UNCHANGED <<m_last_time, m_window_duration, m_log>>
    /\ UNCHANGED <<core_vars, n_vars, h_vars, k_vars, a_vars, q_vars,
                   s_vars>>

\* ------------------------------------------------------- specifications
\* The objects of each class at a fixed construction
CoreNew == CombinerNew(0, 2) /\ WindowNew(0, 2) /\ BlockNew(2)

MoreNew ==
    /\ NeighborhoodNew(2)
    /\ HistoryNew(2)
    /\ CounterNew
    /\ AlignerNew
    /\ BufferNew(FALSE, 2)
    /\ BlockArrLikeNew(2)
    /\ CombineNew(0, 2)

CombinerInit == \E d \in Durations : CombinerNew(0, d)

WindowInit ==
    \E t \in StartTimes, d \in Durations : WindowNew(t, d)

BlockInit == \E n \in BlockSizes : BlockNew(n)

\* The Combiner alone; the other objects stay as constructed
Init == CombinerInit /\ WindowNew(0, 2) /\ BlockNew(2) /\ MoreNew

\* The caller of put: well-formed intervals, in chronological order per topic
PutAllowed(topic, start_time, end_time) ==
    /\ Len(c_log) < MaxPuts
    /\ start_time <= end_time
    /\ end_time - start_time <= MaxSpan
    /\ Chronological(c_log, topic, start_time)

Next ==
    \/ \E topic \in Topics, start_time \in Times, end_time \in Times :
           /\ PutAllowed(topic, start_time, end_time)
           /\ CombinerPut(topic, start_time, end_time)
    \/ CombinerNext

Spec == Init /\ [][Next]_vars

\* The consumer keeps pulling: a next() that would return a bundle is
\* eventually called.
SpecFair == Init /\ [][Next]_vars /\ WF_vars(CombinerNext)

\* The two-topic scenario: Combiner(start=0, duration=10) is fed
\* put(x,d1,0,10), put(y,d2,3,6), put(x,d3,10,20) and then further data;
\* next() may be called at any point.
ScenarioScript ==
    << [topic |-> "x", start_time |-> 0,  end_time |-> 10],
       [topic |-> "y", start_time |-> 3,  end_time |-> 6],
       [topic |-> "x", start_time |-> 10, end_time |-> 20] >>

ScenarioTimes == {0, 3, 6, 10, 15, 20}

ScenarioInit == CombinerNew(0, 10) /\ WindowNew(0, 2) /\ BlockNew(2) /\ MoreNew

ScenarioPutAllowed(topic, start_time, end_time) ==
    /\ Len(c_log) < ScenarioPuts
    /\ start_time <= end_time
    /\ Chronological(c_log, topic, start_time)
    /\ Len(c_log) < Len(ScenarioScript) =>
           [topic |-> topic, start_time |-> start_time, end_time |-> end_time]
               = ScenarioScript[Len(c_log) + 1]

ScenarioNext ==
    \/ \E topic \in Topics, start_time \in ScenarioTimes,
          end_time \in ScenarioTimes :
           /\ ScenarioPutAllowed(topic, start_time, end_time)
           /\ CombinerPut(topic, start_time, end_time)
    \/ CombinerNext

SpecScenario == ScenarioInit /\ [][ScenarioNext]_vars

\* The fixed-duration Window grouper alone
WindowSpecInit == CombinerNew(0, 2) /\ WindowInit /\ BlockNew(2) /\ MoreNew

WindowSpecNext ==
    \/ \E start_time \in Times, end_time \in Times :
           /\ WindowPutAllowed(start_time, end_time)
           /\ WindowPut(start_time, end_time)
    \/ WindowNext

SpecWindow == WindowSpecInit /\ [][WindowSpecNext]_vars

\* The Block grouper alone
BlockSpecInit == CombinerNew(0, 2) /\ WindowNew(0, 2) /\ BlockInit /\ MoreNew

BlockSpecNext ==
    \/ \E start_time \in Times, end_time \in Times :
           /\ BlockPutAllowed(start_time, end_time)
           /\ BlockPut(start_time, end_time)
    \/ BlockNext

SpecBlock == BlockSpecInit /\ [][BlockSpecNext]_vars

\* A Combiner whose first window does not start at 0: the data all come
\* after its start, or some may precede it.
OffsetStarts == {-1, 1}

OffsetInit ==
    /\ \E t \in OffsetStarts : CombinerNew(t, 2)
    /\ WindowNew(0, 2) /\ BlockNew(2) /\ MoreNew

SpecOffset == OffsetInit /\ [][Next]_vars

\* A Combiner whose topics start far apart: one topic's first datum comes
\* near the start, another's some windows later.
ForwardTimes == {0, 1, 6, 7}

ForwardPutAllowed(topic, start_time, end_time) ==
    /\ Len(c_log) < MaxPuts
    /\ start_time <= end_time
    /\ end_time - start_time <= MaxSpan
    /\ Chronological(c_log, topic, start_time)

ForwardNext ==
    \/ \E topic \in Topics, start_time \in ForwardTimes,
          end_time \in ForwardTimes :
           /\ ForwardPutAllowed(topic, start_time, end_time)
           /\ CombinerPut(topic, start_time, end_time)
    \/ CombinerNext

SpecForward == Init /\ [][ForwardNext]_vars

\* Either Combiner class, combiner.py's or combine.py's, built alike; a
\* run drives one of the two objects and leaves the other as built.
CombinersInit ==
    /\ CombinerNew(0, 2) /\ CombineNew(0, 2)
    /\ WindowNew(0, 2) /\ BlockNew(2)
    /\ NeighborhoodNew(2) /\ HistoryNew(2) /\ CounterNew /\ AlignerNew
    /\ BufferNew(FALSE, 2) /\ BlockArrLikeNew(2)

CombinerAsBuilt == c_log = <<>> /\ c_ret = "none"

CombineAsBuilt == m_log = <<>> /\ m_ret = "none"

\* The data put to the two classes are instants or one time unit long
Spans == {0, 1}

\* The caller of either put: at most MaxPuts short data
ShortAllowed(log, start_time, end_time) ==
    /\ Len(log) < MaxPuts
    /\ end_time - start_time \in Spans

CombinersNext ==
    \/ \E topic \in Topics, start_time \in Times, end_time \in Times :
           /\ CombineAsBuilt
           /\ ShortAllowed(c_log, start_time, end_time)
           /\ Chronological(c_log, topic, start_time)
           /\ CombinerPut(topic, start_time, end_time)
    \/ CombineAsBuilt /\ CombinerNext
    \/ \E topic \in Topics, start_time \in Times, end_time \in Times :
           /\ CombinerAsBuilt
           /\ ShortAllowed(m_log, start_time, end_time)
           /\ Chronological(m_log, topic, start_time)
           /\ CombinePut(topic, start_time, end_time)
    \/ CombinerAsBuilt /\ CombineNext

SpecCombiners == CombinersInit /\ [][CombinersNext]_vars

\* Either Combiner class under puts in any order: a datum may come after
\* a later one of its topic.
AnyOrderNext ==
    \/ \E topic \in Topics, start_time \in Times, end_time \in Times :
           /\ CombineAsBuilt
           /\ ShortAllowed(c_log, start_time, end_time)
           /\ CombinerPut(topic, start_time, end_time)
    \/ CombineAsBuilt /\ CombinerNext
    \/ \E topic \in Topics, start_time \in Times, end_time \in Times :
           /\ CombinerAsBuilt
           /\ ShortAllowed(m_log, start_time, end_time)
           /\ CombinePut(topic, start_time, end_time)
    \/ CombinerAsBuilt /\ CombineNext

SpecAnyOrder == CombinersInit /\ [][AnyOrderNext]_vars

\* The caller of a single-stream put: at most MaxPuts well-formed
\* intervals, in temporal order
InOrder(log, start_time, end_time) ==
    /\ Len(log) < MaxPuts
    /\ start_time <= end_time
    /\ \A k \in 1..Len(log) : log[k].end_time <= start_time

\* A Neighborhood of either length.
NeighborhoodSpecInit ==
    /\ CoreNew
    /\ CombineNew(0, 2)
    /\ \E length \in NbhdLengths : NeighborhoodNew(length)
    /\ HistoryNew(2) /\ CounterNew /\ AlignerNew
    /\ BufferNew(FALSE, 2) /\ BlockArrLikeNew(2)

NeighborhoodSpecNext ==
    \/ \E datum \in BOOLEAN, start_time \in Times, end_time \in Times :
           /\ InOrder(n_log, start_time, end_time)
           /\ NeighborhoodPut(datum, start_time, end_time)
    \/ NeighborhoodNext

SpecNeighborhood == NeighborhoodSpecInit /\ [][NeighborhoodSpecNext]_vars

\* A History of either length; the data are numbered in put order.
HistorySpecInit ==
    /\ CoreNew
    /\ CombineNew(0, 2)
    /\ \E length \in HistoryLengths : HistoryNew(length)
    /\ NeighborhoodNew(2) /\ CounterNew /\ AlignerNew
    /\ BufferNew(FALSE, 2) /\ BlockArrLikeNew(2)

HistorySpecNext ==
    \/ \E start_time \in Times, end_time \in Times :
           /\ InOrder(h_log, start_time, end_time)
           /\ HistoryPut(Len(h_log) + 1, start_time, end_time)
    \/ HistoryNext

SpecHistory == HistorySpecInit /\ [][HistorySpecNext]_vars

\* A Counter.
CounterSpecInit ==
    /\ CoreNew
    /\ CombineNew(0, 2)
    /\ CounterNew
    /\ NeighborhoodNew(2) /\ HistoryNew(2) /\ AlignerNew
    /\ BufferNew(FALSE, 2) /\ BlockArrLikeNew(2)

CounterSpecNext ==
    \/ \E datum \in BOOLEAN, start_time \in Times, end_time \in Times :
           /\ InOrder(k_log, start_time, end_time)
           /\ CounterPut(datum, start_time, end_time)
    \/ CounterNext

SpecCounter == CounterSpecInit /\ [][CounterSpecNext]_vars

\* An Aligner over Topics; each topic's intervals come in temporal order.
AlignerSpecInit == CoreNew /\ MoreNew

AlignerPutAllowed(topic, start_time, end_time) ==
    /\ Len(a_log) < MaxPuts
    /\ start_time <= end_time
    /\ end_time - start_time <= MaxSpan
    /\ Chronological(a_log, topic, start_time)

AlignerSpecNext ==
    \/ \E topic \in Topics, start_time \in Times, end_time \in Times :
           /\ AlignerPutAllowed(topic, start_time, end_time)
           /\ AlignerPut(topic, start_time, end_time)
    \/ AlignerNext

SpecAligner == AlignerSpecInit /\ [][AlignerSpecNext]_vars

\* A BlockBuffer or a BlockBufferNP of any block size, the sizes that are
\* not positive included.
BufferSpecInit ==
    /\ CoreNew
    /\ CombineNew(0, 2)
    /\ \E numpy \in BOOLEAN, block_size \in BufferSizes :
           BufferNew(numpy, block_size)
    /\ NeighborhoodNew(2) /\ HistoryNew(2) /\ CounterNew /\ AlignerNew
    /\ BlockArrLikeNew(2)

\* the number of elements in a sequence of chunks
RECURSIVE Total(_)
Total(items) ==
    IF items = <<>> THEN 0 ELSE Len(Head(items)) + Total(Tail(items))

\* The caller of put: at most MaxPuts elements, in at most MaxPuts chunks
BufferPutAllowed(chunk) ==
    IF q_numpy
    THEN Len(q_log) + Len(chunk) <= MaxPuts
    ELSE Len(q_log) < MaxPuts /\ Total(q_log) + Len(chunk) <= MaxPuts

BufferSpecNext ==
    \/ \E chunk \in Chunks : BufferPutAllowed(chunk) /\ BufferPut(chunk)
    \/ BufferNext
    \/ BufferNumBlocks
    \/ BufferGetAll
    \/ BufferReset

SpecBuffer == BufferSpecInit /\ [][BufferSpecNext]_vars

\* A BlockArrLike of either block size.
BlockArrLikeSpecInit ==
    /\ CoreNew
    /\ CombineNew(0, 2)
    /\ \E block_size \in BlockSizes : BlockArrLikeNew(block_size)
    /\ NeighborhoodNew(2) /\ HistoryNew(2) /\ CounterNew /\ AlignerNew
    /\ BufferNew(FALSE, 2)

BlockArrLikeSpecNext ==
    \/ \E length \in 0..MaxChunk, start_time \in Times, end_time \in Times :
           /\ InOrder(s_log, start_time, end_time)
           /\ BlockArrLikePut(length, start_time, end_time)
    \/ BlockArrLikeNext

SpecBlockArrLike == BlockArrLikeSpecInit /\ [][BlockArrLikeSpecNext]_vars

\* ------------------------------------------------------------------ claims
\* helpers of the claims: the put history seen from one open window
TopicsReady(window) == \A t \in Topics : window.statuses[t] = TRUE

Returned(window) ==
    [ data |-> window.data, start_time |-> window.start_time,
      end_time |-> window.end_time ]

\* length of the intersection of put a's interval with window i's span; the
\* overlap proportion is this length over the window's duration
Inter(a, i) ==
    LET lo == Max(c_log[a].start_time, c_windows[i].start_time)
        hi == Min(c_log[a].end_time, c_windows[i].end_time)
    IN  IF hi > lo THEN hi - lo ELSE 0

Span(i) == c_windows[i].end_time - c_windows[i].start_time

SameTopic(a, b) == c_log[a].topic = c_log[b].topic

\* put a has the greatest overlap with window i among its topic's puts
IsBest(a, i) ==
    \A c \in 1..Len(c_log) : SameTopic(a, c) => Inter(c, i) <= Inter(a, i)

\* put a is the first put of its topic with its overlap with window i
IsFirstOfTie(a, i) ==
    \A c \in 1..(a - 1) : SameTopic(a, c) => Inter(c, i) # Inter(a, i)

\* C1: next() returns a bundle only when the oldest open window exists and
\* its status is true for every topic at that moment, and the bundle is that
\* window.
C1_NoPrematureEmission ==
    [][ Len(c_out') > Len(c_out) =>
            /\ c_windows # <<>>
            /\ TopicsReady(c_windows[1])
            /\ c_ret' = "bundle"
            /\ c_out' = Append(c_out, Returned(c_windows[1])) ]_vars

C1_Witness == c_ret = "bundle" /\ c_out # <<>> /\ c_windows # <<>>

\* C2: whenever the oldest open window is ready for all topics, a call of
\* next() returns exactly that window and removes it, however many newer
\* windows are open; no other window is ever the one returned; and a put
\* made while the oldest window is ready leaves that window as it is.
C2_FifoEmission ==
    [][ /\ ( /\ c_log' = c_log
             /\ c_windows # <<>>
             /\ TopicsReady(c_windows[1]) )
           => ( /\ c_ret' = "bundle"
                /\ c_out' = Append(c_out, Returned(c_windows[1]))
                /\ c_windows' = Tail(c_windows) )
        /\ Len(c_out') > Len(c_out)
           => ( /\ c_out'[Len(c_out')] = Returned(c_windows[1])
                /\ c_windows' = Tail(c_windows) )
        /\ ( /\ c_log' # c_log
             /\ c_windows # <<>>
             /\ TopicsReady(c_windows[1]) )
           => ( /\ c_windows' # <<>>
                /\ c_windows'[1] = c_windows[1] ) ]_vars

C2_Witness == c_ret = "bundle" /\ Len(c_windows) >= 2

\* C3: an open window is eventually returned by next() once every topic has
\* put a datum that starts at or after the window's end, provided the consumer
\* keeps pulling.
WindowOpen(k) == \E i \in 1..Len(c_windows) : c_windows[i].start_time = k

AllTopicsPast(k) ==
    \A t \in Topics : \E a \in 1..Len(c_log) :
        /\ c_log[a].topic = t
        /\ c_log[a].start_time >= k + c_window_duration

WindowReturned(k) == \E j \in 1..Len(c_out) : c_out[j].start_time = k

C3_EventuallyReturned ==
    \A k \in Times : (WindowOpen(k) /\ AllTopicsPast(k)) ~> WindowReturned(k)

C3_Witness ==
    \E k \in Times :
        /\ WindowReturned(k)
        /\ AllTopicsPast(k)
        /\ \E a \in 1..Len(c_log) : c_log[a].start_time = k + c_window_duration

\* C4: when a topic has put two data whose overlaps with an open window are
\* o1 < o2, the window does not hold the o1 datum, its stored overlap is at
\* least o2, and if no other datum of the topic overlaps more, the slot holds
\* a datum with overlap o2 and the stored overlap is o2: in either put order.
C4_OverlapMonotone ==
    \A i \in 1..Len(c_windows) : \A a, b \in 1..Len(c_log) :
        (SameTopic(a, b) /\ Inter(a, i) < Inter(b, i)) =>
            LET t == c_log[b].topic
                w == c_windows[i]
            IN  /\ w.data[t] # c_log[a].datum
                /\ w.overlaps[t].num * Span(i) >= Inter(b, i) * w.overlaps[t].den
                /\ IsBest(b, i) =>
                       /\ w.data[t] \in 1..Len(c_log)
                       /\ SameTopic(w.data[t], b)
                       /\ Inter(w.data[t], i) = Inter(b, i)
                       /\ w.overlaps[t].num * Span(i)
                              = Inter(b, i) * w.overlaps[t].den

C4_Witness ==
    /\ \E i \in 1..Len(c_windows) : \E a, b \in 1..Len(c_log) :
           a < b /\ SameTopic(a, b) /\ 0 < Inter(a, i) /\ Inter(a, i) < Inter(b, i)
    /\ \E i \in 1..Len(c_windows) : \E a, b \in 1..Len(c_log) :
           a < b /\ SameTopic(a, b) /\ 0 < Inter(b, i) /\ Inter(b, i) < Inter(a, i)

\* C5 as stated: of two data of one topic with equal overlap with an open
\* window (none of the topic's data overlapping more), the slot holds the one
\* put first.
C5_TieKeepsFirst ==
    \A i \in 1..Len(c_windows) : \A a, b \in 1..Len(c_log) :
        ( /\ a < b /\ SameTopic(a, b) /\ Inter(a, i) = Inter(b, i)
          /\ IsBest(a, i) /\ IsFirstOfTie(a, i) )
        => c_windows[i].data[c_log[a].topic] = c_log[a].datum

\* C5 amended: of two data of one topic with equal non-zero overlap with an
\* open window (none of the topic's data overlapping more), the slot holds
\* the one put first; with equal overlap of any size the later one is never
\* in the slot.
C5_TieKeepsFirstNonZero ==
    \A i \in 1..Len(c_windows) : \A a, b \in 1..Len(c_log) :
        (a < b /\ SameTopic(a, b) /\ Inter(a, i) = Inter(b, i)) =>
            /\ c_windows[i].data[c_log[a].topic] # c_log[b].datum
            /\ (Inter(a, i) > 0 /\ IsBest(a, i) /\ IsFirstOfTie(a, i))
                   => c_windows[i].data[c_log[a].topic] = c_log[a].datum

C5_Witness ==
    \E i \in 1..Len(c_windows) : \E a, b \in 1..Len(c_log) :
        /\ a < b /\ SameTopic(a, b)
        /\ Inter(a, i) = Inter(b, i) /\ Inter(a, i) > 0
        /\ IsBest(a, i)
        /\ c_windows[i].data[c_log[a].topic] = c_log[a].datum

\* C6: in the two-topic scenario, after the three scripted puts window [0,10)
\* holds x=d1 and y=d2; nothing is returned before y has put a further datum
\* starting at or after 10; once y has, the window is ready, and (y's further
\* data all starting at or after 10) the first bundle returned is
\* ({x:d1, y:d2}, 0, 10).
ScriptDone == Len(c_log) >= Len(ScenarioScript)

YPast ==
    \E a \in (Len(ScenarioScript) + 1)..Len(c_log) :
        c_log[a].topic = "y" /\ c_log[a].start_time >= 10

YOnlyPast ==
    \A a \in (Len(ScenarioScript) + 1)..Len(c_log) :
        c_log[a].topic = "y" => c_log[a].start_time >= 10

HeadIsFirstWindow ==
    /\ c_windows # <<>>
    /\ c_windows[1].start_time = 0
    /\ c_windows[1].end_time = 10

C6_Scenario ==
    ScriptDone =>
        /\ ~YPast => ( /\ c_out = <<>>
                       /\ HeadIsFirstWindow
                       /\ c_windows[1].data["x"] = 1
                       /\ ~TopicsReady(c_windows[1]) )
        /\ (YOnlyPast /\ c_out = <<>>) =>
               ( /\ HeadIsFirstWindow
                 /\ c_windows[1].data = [x |-> 1, y |-> 2] )
        /\ (YPast /\ c_out = <<>>) =>
               (HeadIsFirstWindow /\ TopicsReady(c_windows[1]))
        /\ (YOnlyPast /\ c_out # <<>>) =>
               c_out[1] = [ data |-> [x |-> 1, y |-> 2],
                            start_time |-> 0, end_time |-> 10 ]

C6_Witness ==
    /\ Len(c_log) = Len(ScenarioScript) + 1
    /\ c_log[Len(c_log)].topic = "y"
    /\ c_ret = "bundle"
    /\ c_out = << [ data |-> [x |-> 1, y |-> 2],
                    start_time |-> 0, end_time |-> 10 ] >>

\* C7: a pull returns a completed group or the not-ready signal
\* StopIteration, and never fails in any other way.
C7_PullTotal == c_ret \in {"none", "ok", "bundle", "StopIteration"}

\* helpers of the Window claims: what the put history asks for
WNonStale(a) == w_log[a].end_time >= w_arg_start_time

WHasData == \E a \in 1..Len(w_log) : WNonStale(a)

WFirst == CHOOSE a \in 1..Len(w_log) :
              WNonStale(a) /\ \A c \in 1..(a - 1) : ~WNonStale(c)

\* the start of the first window: the construction start advanced by whole
\* durations up to the first datum's start
WSnapped ==
    LET s == w_log[WFirst].start_time
    IN  IF s > w_arg_start_time
        THEN w_arg_start_time
                 + w_window_duration
                       * ((s - w_arg_start_time) \div w_window_duration)
        ELSE w_arg_start_time

\* the windows emitted so far, in pull order: those pulled, then those queued
WEmitted == w_out \o w_windows

WHolds(window, datum) ==
    \E j \in 1..Len(window.data) : window.data[j] = datum

\* C8: the emitted windows tile time from the snapped start in steps of the
\* duration, without gaps or overlaps, and a window is emitted for every
\* duration-long interval that ends before the latest datum ends, with or
\* without data.
C8_WindowTiling ==
    WHasData =>
        /\ \A i \in 1..Len(WEmitted) :
               /\ WEmitted[i].start_time
                      = WSnapped + (i - 1) * w_window_duration
               /\ WEmitted[i].end_time
                      = WEmitted[i].start_time + w_window_duration
        /\ \A k \in 0..MaxTime :
               WSnapped + (k + 1) * w_window_duration
                       < w_log[Len(w_log)].end_time
                   => Len(WEmitted) > k

\* C9: an emitted window holds a datum exactly when the datum's interval
\* overlaps the window's span [start_time, end_time), and a datum that spans
\* several windows is in each of them: every window it overlaps that ends
\* before the datum does has been emitted holding it.
C9_WindowMembership ==
    /\ \A i \in 1..Len(WEmitted) : \A a \in 1..Len(w_log) :
           WHolds(WEmitted[i], w_log[a].datum)
               <=> ( /\ WNonStale(a)
                     /\ w_log[a].start_time < WEmitted[i].end_time
                     /\ w_log[a].end_time >= WEmitted[i].start_time )
    /\ WHasData =>
           \A a \in 1..Len(w_log) : \A k \in 0..MaxTime :
               LET ws == WSnapped + k * w_window_duration
                   we == ws + w_window_duration
               IN  ( /\ WNonStale(a)
                     /\ w_log[a].start_time < we
                     /\ w_log[a].end_time > we )
                   => \E i \in 1..Len(WEmitted) :
                          /\ WEmitted[i].start_time = ws
                          /\ WHolds(WEmitted[i], w_log[a].datum)

\* C10: the blocks emitted so far, in pull order (those pulled, then those
\* queued), are the consecutive block_size-long slices of the put history,
\* each with the start time of its first item and the end time of its last.
BEmitted == b_out \o b_output_buffer

C10_BlockSlices ==
    /\ Len(BEmitted) = Len(b_log) \div b_arg_block_size
    /\ \A k \in 1..Len(BEmitted) :
           LET lo == (k - 1) * b_arg_block_size
           IN  /\ BEmitted[k].data
                      = [j \in 1..b_arg_block_size |-> b_log[lo + j].datum]
               /\ BEmitted[k].start_time = b_log[lo + 1].start_time
               /\ BEmitted[k].end_time
                      = b_log[lo + b_arg_block_size].end_time

\* C11: every datum of a Neighborhood that at least length - 1 further puts
\* followed has been emitted, as one entry with its own start and end time
\* whose verdict is true only if some run of `length` consecutive data
\* around it is all valid, and no datum is emitted twice (there are never
\* more entries than data).
NEmitted == n_out \o n_output_buffer

NValidRun(i) ==
    \E k \in 1..Len(n_log) :
        /\ k <= i
        /\ i <= k + n_length - 1
        /\ k + n_length - 1 <= Len(n_log)
        /\ \A j \in k..(k + n_length - 1) : n_log[j].datum

C11_NeighborhoodExhaustive ==
    /\ Len(NEmitted) <= Len(n_log)
    /\ \A i \in 1..Len(n_log) :
           i + n_length - 1 <= Len(n_log) =>
               \E j \in 1..Len(NEmitted) :
                   /\ NEmitted[j][2] = n_log[i].start_time
                   /\ NEmitted[j][3] = n_log[i].end_time
                   /\ NEmitted[j][1] => NValidRun(i)

\* C12: a History never holds more than length + 1 pending items.
C12_HistoryBounded == Len(h_data) <= h_length + 1

\* C12, as the code has it: put only appends, and only a successful next
\* removes an item; the History holds the items put less the groups
\* returned, in put order, with their times, whatever their number, and at
\* most `length` of them when next has just reported that nothing is
\* available.
HPending == SubSeq(h_log, Len(h_out) + 1, Len(h_log))

C12_HistoryPending ==
    /\ Len(h_data) = Len(h_log) - Len(h_out)
    /\ \A i \in 1..Len(h_data) :
           /\ h_data[i] = HPending[i].datum
           /\ h_times[i] = <<HPending[i].start_time, HPending[i].end_time>>
    /\ h_ret = "StopIteration" => Len(h_data) <= h_length

C12_Witness ==
    /\ h_ret = "StopIteration"
    /\ Len(h_data) = h_length
    /\ h_out # <<>>

\* C13: a next that finds at most `length` items buffered (put and not yet
\* the first item of a returned group) reports not-available and returns
\* nothing; otherwise the group it returns, the k-th, holds the input items
\* k to k + length - 1 in put order, with the start and end time of input
\* item k + length.
C13_HistoryContent ==
    [][h_log' = h_log =>
           LET k == Len(h_out) + 1
           IN  IF Len(h_log) - Len(h_out) <= h_length
               THEN h_ret' = "StopIteration" /\ h_out' = h_out
               ELSE h_out' = Append(h_out,
                        [data |-> [j \in 1..h_length |->
                                       h_log[k + j - 1].datum],
                         start_time |-> h_log[k + h_length].start_time,
                         end_time |-> h_log[k + h_length].end_time])]_vars

C13_Witness ==
    /\ Len(h_out) = 2
    /\ h_out[2].data = <<2>>
    /\ h_ret = "StopIteration"

\* C14: every put of a Counter enqueues exactly one entry that next can
\* return at once, the entries come out in put order, and the entry of a
\* datum is (c, its start time, its end time) with c the number of
\* consecutive valid data immediately before it.
KEntries == k_out \o k_buffer

RunBefore(i) ==
    Cardinality({j \in 1..(i - 1) : \A n \in j..(i - 1) : k_log[n].datum})

C14_RunCounter ==
    /\ Len(KEntries) = Len(k_log)
    /\ \A i \in 1..Len(k_log) :
           KEntries[i] = <<RunBefore(i), k_log[i].start_time,
                           k_log[i].end_time>>
    /\ k_ret = "StopIteration" => Len(k_out) = Len(k_log)

C14_Witness ==
    /\ Len(k_out) = 3
    /\ k_out[2][1] = 1
    /\ k_out[3][1] = 0

\* C15: a put of an Aligner stores the datum in the oldest open window
\* whose slot for the topic is unfilled and changes no other window; only
\* when every open window has the topic filled does it open a window, with
\* that put's start and end time and only that slot filled.  next returns
\* the oldest window, and only when every topic's slot of it is filled.
C15_AlignerFill ==
    [][/\ a_log' # a_log =>
              LET p == a_log'[Len(a_log')]
                  n == Len(a_windows)
                  open == {i \in 1..n : ~a_windows[i].statuses[p.topic]}
              IN  IF open # {}
                  THEN \E i \in open :
                           /\ \A j \in open : i <= j
                           /\ Len(a_windows') = n
                           /\ \A j \in 1..n : j # i =>
                                  a_windows'[j] = a_windows[j]
                           /\ a_windows'[i] =
                                  [a_windows[i] EXCEPT
                                       !.data[p.topic] = p.datum,
                                       !.statuses[p.topic] = TRUE]
                  ELSE /\ Len(a_windows') = n + 1
                       /\ \A j \in 1..n : a_windows'[j] = a_windows[j]
                       /\ a_windows'[n + 1] =
                              [data |-> [t \in Topics |->
                                   IF t = p.topic THEN p.datum ELSE None],
                               start_time |-> p.start_time,
                               end_time |-> p.end_time,
                               statuses |-> [t \in Topics |-> t = p.topic]]
       /\ a_windows' # a_windows /\ a_log' = a_log =>
              /\ a_windows # <<>>
              /\ \A t \in Topics : a_windows[1].statuses[t]
              /\ a_windows' = Tail(a_windows)
              /\ a_out' = Append(a_out,
                     [data |-> a_windows[1].data,
                      start_time |-> a_windows[1].start_time,
                      end_time |-> a_windows[1].end_time])
       /\ a_out' # a_out => a_windows' # a_windows /\ a_log' = a_log
      ]_vars

C15_Witness ==
    /\ Len(a_windows) = 2
    /\ a_windows[1].data = [x |-> 1, y |-> 3]
    /\ a_windows[2].data = [x |-> 2, y |-> None]

\* C16: a BlockBuffer built with a block size that is not positive is in
\* the InvalidConfig error state, and next never returns a block of no
\* items.
C16_InvalidConfig ==
    /\ q_block_size <= 0 => q_ret = "InvalidConfig"
    /\ ~(q_ret = "block" /\ q_value = <<>>)

\* C17: get_all returns the buffered items (those added and not taken by
\* next) in insertion order, a partial trailing block included, and leaves
\* the buffer empty.
QRemaining == SubSeq(q_log, q_taken + 1, Len(q_log))

C17_GetAllClears ==
    q_ret = "get_all" => (q_value = QRemaining /\ q_buffer = <<>>)

\* C17, as the code has it: get_all returns the buffered items in insertion
\* order, a partial trailing block included, and leaves the buffer as it
\* was: the items returned are still buffered.
C17_GetAllKeeps ==
    q_ret = "get_all" => (q_value = QRemaining /\ q_buffer = QRemaining)

C17_Witness ==
    /\ q_ret = "get_all"
    /\ q_block_size = 2
    /\ q_taken = 2
    /\ Len(q_value) = 1

\* C18: the first bundle a Combiner returns has a datum in every topic's
\* slot.
C18_FirstBundleComplete ==
    c_out # <<>> => \A t \in Topics : c_out[1].data[t] # None

\* C19: every window a Combiner opens starts at the configured start time
\* plus a whole number (zero or more) of window durations and ends one
\* duration later, and the open windows are consecutive: each starts where
\* the one before it ends, and the next window to open starts where the
\* last one ends.
OnGrid(w) ==
    /\ w.start_time >= c_start_time
    /\ (w.start_time - c_start_time) % c_window_duration = 0
    /\ w.end_time = w.start_time + c_window_duration

C19_GridAligned ==
    /\ \A i \in 1..Len(c_windows) : OnGrid(c_windows[i])
    /\ \A i \in 1..Len(c_out) : OnGrid(c_out[i])
    /\ \A i \in 1..(Len(c_windows) - 1) :
           c_windows[i + 1].start_time = c_windows[i].end_time
    /\ c_windows # <<>> =>
           c_next_start_time = c_windows[Len(c_windows)].end_time

C19_Witness ==
    /\ c_start_time = -1
    /\ c_window_duration = 2
    /\ c_out # <<>>
    /\ c_out[1].start_time = 1
    /\ c_log[1].start_time = 2
    /\ c_windows # <<>>

\* C20: the blocks a BlockArrLike has emitted, in order, are the consecutive
\* block_size-long slices of the elements put, and the end time of each is
\* interpolated in the put interval that holds its last element: the
\* interval's start plus its extent times the share of its elements that
\* lie up to the end of the block, also when the block spans several
\* intervals.
SEmitted == s_out \o s_output_buffer

SElements == IF s_log = <<>> THEN 0 ELSE s_log[Len(s_log)].last

C20_BlockInterpolation ==
    /\ Len(SEmitted) = SElements \div s_arg_block_size
    /\ \A k \in 1..Len(SEmitted) :
           LET last == k * s_arg_block_size
               put == CHOOSE j \in 1..Len(s_log) :
                          /\ s_log[j].last - s_log[j].length < last
                          /\ last <= s_log[j].last
               consumed == last - (s_log[put].last - s_log[put].length)
               extent == s_log[put].end_time - s_log[put].start_time
           IN  /\ SEmitted[k].data =
                      [i \in 1..s_arg_block_size |->
                           (k - 1) * s_arg_block_size + i]
               /\ SEmitted[k].end_time.num * s_log[put].length
                      = (s_log[put].start_time * s_log[put].length
                             + extent * consumed) * SEmitted[k].end_time.den

\* C21: when the first put of a topic has a start time s greater than the
\* Combiner's next start time, every window still open ends before s (the
\* list is empty once they are discarded), the next start time moves by a
\* whole number of durations to a p with p <= s < p + duration, and the
\* first window open after the put starts at p: it contains s.
C21_FastForward ==
    [][c_log' # c_log =>
           LET p == c_log'[Len(c_log')]
           IN  (~c_initialized[p.topic]
                    /\ p.start_time > c_next_start_time) =>
                   /\ \A i \in 1..Len(c_windows) :
                          c_windows[i].end_time < p.start_time
                   /\ c_windows' # <<>>
                   /\ c_windows'[1].start_time <= p.start_time
                   /\ p.start_time
                          < c_windows'[1].start_time + c_window_duration
                   /\ c_windows'[1].start_time >= c_next_start_time
                   /\ (c_windows'[1].start_time - c_next_start_time)
                          % c_window_duration = 0]_vars

C21_Witness ==
    /\ c_window_duration = 2
    /\ Len(c_log) = 2
    /\ c_log[1].topic = "x" /\ c_log[1].end_time = 1
    /\ c_log[2].topic = "y" /\ c_log[2].start_time = 7
    /\ c_windows[1].start_time = 6

\* C22: a put whose end time is strictly before the start of the oldest
\* open window leaves the window list of the Combiner as it was (of either
\* Combiner class): no window is added or removed and no window's data,
\* overlaps or statuses change.
C22_StaleDiscard ==
    [][/\ (/\ c_log' # c_log
            /\ c_windows # <<>>
            /\ c_log'[Len(c_log')].end_time < c_windows[1].start_time)
           => c_windows' = c_windows
       /\ (/\ m_log' # m_log
            /\ m_windows # <<>>
            /\ m_log'[Len(m_log')].end_time < m_windows[1].start_time)
           => m_windows' = m_windows]_vars

C22_Witness ==
    /\ c_window_duration = 2
    /\ c_ret = "ok"
    /\ Len(c_log) = 2
    /\ c_log[1].start_time = 3
    /\ c_log[2].topic # c_log[1].topic
    /\ c_log[2].end_time = 1
    /\ Len(c_windows) = 2
    /\ c_windows[1].start_time = 2

\* C24: with each topic's start times non-decreasing, a status of an open
\* window that is true stays true, and the data and overlap of that topic
\* in that window stay as they are, in every step that keeps the window
\* (of either Combiner class).
C24_ReadyIsFinal ==
    [][/\ \A i \in 1..Len(c_windows), j \in 1..Len(c_windows'), t \in Topics :
              (/\ c_windows'[j].start_time = c_windows[i].start_time
               /\ c_windows[i].statuses[t])
                  => /\ c_windows'[j].statuses[t]
                     /\ c_windows'[j].data[t] = c_windows[i].data[t]
                     /\ c_windows'[j].overlaps[t] = c_windows[i].overlaps[t]
       /\ \A i \in 1..Len(m_windows), j \in 1..Len(m_windows'), t \in Topics :
              (/\ m_windows'[j].start_time = m_windows[i].start_time
               /\ m_windows[i].statuses[t])
                  => /\ m_windows'[j].statuses[t]
                     /\ m_windows'[j].data[t] = m_windows[i].data[t]
                     /\ m_windows'[j].overlaps[t] = m_windows[i].overlaps[t]
      ]_vars

C24_Witness ==
    /\ Len(m_log) = 3
    /\ \A k \in 1..3 : m_log[k].topic = "x"
    /\ m_log[2].start_time >= m_windows[1].end_time
    /\ m_windows[1].statuses["x"]
    /\ m_windows[1].data["x"] = 1

\* C23: once a datum that is not stale has been put to a Window, there is a
\* first window (the first one emitted or, before any is emitted, the
\* current one); it starts at t = start + duration * floor((s - start) /
\* duration) for the start time s of the first such datum, t <= s < t +
\* duration, and it holds that datum.
WFirstWindow == IF WEmitted # <<>> THEN WEmitted[1] ELSE w_current[1]

C23_FirstWindowSnap ==
    WHasData =>
        LET s == w_log[WFirst].start_time
            t == w_arg_start_time
                     + w_window_duration
                           * ((s - w_arg_start_time) \div w_window_duration)
        IN  /\ WEmitted # <<>> \/ w_current # <<>>
            /\ WFirstWindow.start_time = t
            /\ WFirstWindow.end_time = t + w_window_duration
            /\ t <= s /\ s < t + w_window_duration
            /\ WHolds(WFirstWindow, w_log[WFirst].datum)

\* C25: the k-th bundle an Aligner returns holds, for every topic, the k-th
\* datum put on that topic; the open windows hold the data that follow, in
\* the same order, and every datum put is in a returned bundle or an open
\* window: none is dropped, duplicated or moved.
OnTopic(t) == SelectSeq(a_log, LAMBDA p : p.topic = t)

C25_Positional ==
    \A t \in Topics :
        /\ Len(OnTopic(t)) <= Len(a_out) + Len(a_windows)
        /\ \A k \in 1..Len(a_out) :
               /\ k <= Len(OnTopic(t))
               /\ a_out[k].data[t] = OnTopic(t)[k].datum
        /\ \A i \in 1..Len(a_windows) :
               a_windows[i].data[t] =
                   IF Len(a_out) + i <= Len(OnTopic(t))
                   THEN OnTopic(t)[Len(a_out) + i].datum
                   ELSE None

C25_Witness ==
    /\ Len(a_out) = 1
    /\ a_out[1].data = [x |-> 1, y |-> 3]
    /\ a_windows # <<>>
    /\ a_windows[1].data["x"] = 2

====
